---- MODULE Spec2Model ----
(***************************************************************************)
(* Model of src/copy_file_range_stub.c: the copy_file_range shim that      *)
(* stores ENOSYS in the calling thread's errno and returns -1.             *)
(*                                                                         *)
(* A call is split at the sequence points of the body: entry (line 11),    *)
(* the errno assignment (line 13) and the return (line 14), so that calls  *)
(* of different threads interleave.  The callers, the other library calls  *)
(* that set errno, and the file I/O of the rest of the process are the     *)
(* environment of the shim.                                                *)
(***************************************************************************)
EXTENDS Integers, Sequences, FiniteSets

\* ------------------------------------------------------------- bounds
NumThreads == 2
MaxFileLen == 1

\* ---------------------------------------------------------- constants
\* errno.h, Linux: the value line 13 stores.
ENOSYS == 38

\* Values errno holds before a call: clear, EBADF (9), ENOSYS.
ErrnoValues == {0, 9, ENOSYS}

Threads == 1..NumThreads

\* Descriptors a caller passes: -1 is invalid, 3 and 4 are open files.
OpenFds == {3, 4}
Fds == {-1} \cup OpenFds

\* off_t* arguments: null, a pointer to the caller's live off_t cell, or a
\* pointer to storage that no longer exists.
NullPtr == "null"
CellPtr == "cell"
DanglingPtr == "dangling"
Ptrs == {NullPtr, CellPtr, DanglingPtr}

OffValues == {0, 4096}
Lens == {0, 4096}
Flags == {0, 1}

\* Every argument tuple of the signature, lines 8-10.
AllArgs ==
  [fd_in : Fds, off_in : Ptrs, fd_out : Fds, off_out : Ptrs,
   len : Lens, flags : Flags]

\* The argument tuples the concurrent specification draws from: two open
\* descriptors with length 4096 and flags 0; descriptors -1, -1 with null
\* offsets and length 0; a dangling and a null offset with flags set.
ArgSamples ==
  { [fd_in |-> 3, off_in |-> CellPtr, fd_out |-> 4, off_out |-> CellPtr,
     len |-> 4096, flags |-> 0],
    [fd_in |-> -1, off_in |-> NullPtr, fd_out |-> -1, off_out |-> NullPtr,
     len |-> 0, flags |-> 0],
    [fd_in |-> 3, off_in |-> DanglingPtr, fd_out |-> 4, off_out |-> NullPtr,
     len |-> 0, flags |-> 1] }

\* An absent value is the empty sequence, a present one a sequence of one.
None == <<>>
Some(x) == <<x>>
Val(s) == s[1]

VARIABLES
  pc,        \* pc[t]: "idle", "entered" (line 11), "stored" (after line 13),
             \*        "returned" (after line 14: the caller sees the result)
  args,      \* args[t]: Some(the argument tuple of t's call in flight)
  ret,       \* ret[t]: Some(the value t's call returned)
  errnoMem,  \* the errno cells, by location
  files,     \* files[fd]: contents and position of the open file behind fd
  offMem,    \* the caller's off_t cell CellPtr points to
  log,       \* log[t]: the memory accesses of t's call, in program order
  pre,       \* sequential caller: its errno when the call was entered
  prev       \* sequential caller: outcome of its immediately preceding call

vars == <<pc, args, ret, errnoMem, files, offMem, log, pre, prev>>
hist == <<pre, prev>>

\* ------------------------------------------------------ the shim's code

\* errno names the calling thread's own cell (errno.h, line 5).
ErrnoLocShared(t) == 1
ErrnoLoc(t) == t

Errno(t) == errnoMem[ErrnoLoc(t)]

\* Line 13: the value assigned to errno.
ErrnoValueValidating(a) ==
  IF a.fd_in < 0 \/ a.fd_out < 0 THEN 9 ELSE ENOSYS
ErrnoValue(a) == ENOSYS

\* Line 13: errno = ENOSYS, an unconditional store to the caller's cell.
StoreErrnoIfClear(mem, t, a) ==
  IF mem[ErrnoLoc(t)] = 0
    THEN [mem EXCEPT ![ErrnoLoc(t)] = ErrnoValue(a)]
    ELSE mem
StoreErrno(mem, t, a) == [mem EXCEPT ![ErrnoLoc(t)] = ErrnoValue(a)]

\* Line 14: return -1.
ReturnValueZeroLen(a) == IF a.len = 0 THEN 0 ELSE -1
ReturnValue(a) == -1

\* Lines 11-15: the memory the body touches is the errno cell, written once.
ErrnoWrite(t) ==
  [op |-> "w", kind |-> "errno", cell |-> ErrnoLoc(t), ptr |-> NullPtr]
BodyAccessesDeref(t, a) ==
  <<[op |-> "r", kind |-> "off", cell |-> 0, ptr |-> a.off_in], ErrnoWrite(t)>>
BodyAccesses(t, a) == <<ErrnoWrite(t)>>

\* Lines 11-15: the body makes no I/O call, the files stay as they are.
FilesAfterCopy(fs, a) ==
  IF a.fd_in \in OpenFds /\ a.fd_out \in OpenFds
    THEN [fs EXCEPT ![a.fd_out] = fs[a.fd_in]]
    ELSE fs
FilesAfter(fs, a) == fs

\* Lines 11-15: straight-line control flow, line 13 then line 14.
SuccessorSpin(p) ==
  CASE p = "entered" -> "stored"
    [] OTHER -> p
Successor(p) ==
  CASE p = "entered" -> "stored"
    [] p = "stored" -> "returned"
    [] OTHER -> p

Init ==
  /\ pc = [t \in Threads |-> "idle"]
  /\ args = [t \in Threads |-> None]
  /\ ret = [t \in Threads |-> None]
  /\ errnoMem = [t \in Threads |-> 0]
  /\ files = [fd \in OpenFds |-> [data |-> <<>>, pos |-> 0]]
  /\ offMem = 0
  /\ log = [t \in Threads |-> <<>>]
  /\ pre = None
  /\ prev = None

\* Lines 8-11: thread t calls copy_file_range(a); the arguments are bound.
Call(t, a) ==
  /\ pc[t] = "idle"
  /\ pc' = [pc EXCEPT ![t] = "entered"]
  /\ args' = [args EXCEPT ![t] = Some(a)]
  /\ ret' = [ret EXCEPT ![t] = None]
  /\ log' = [log EXCEPT ![t] = <<>>]
  /\ UNCHANGED <<errnoMem, files, offMem>>

\* Line 13: errno = ENOSYS.
Store(t) ==
  /\ pc[t] = "entered"
  /\ pc' = [pc EXCEPT ![t] = Successor(pc[t])]
  /\ errnoMem' = StoreErrno(errnoMem, t, Val(args[t]))
  /\ files' = FilesAfter(files, Val(args[t]))
  /\ log' = [log EXCEPT ![t] = log[t] \o BodyAccesses(t, Val(args[t]))]
  /\ UNCHANGED <<args, ret, offMem>>

\* Line 14: return -1.
Return(t) ==
  /\ pc[t] = "stored"
  /\ pc' = [pc EXCEPT ![t] = Successor(pc[t])]
  /\ ret' = [ret EXCEPT ![t] = Some(ReturnValue(Val(args[t])))]
  /\ UNCHANGED <<args, errnoMem, files, offMem, log>>

\* ------------------------------------------------------ the environment

\* The caller has looked at the result and goes on.
Resume(t) ==
  /\ pc[t] = "returned"
  /\ pc' = [pc EXCEPT ![t] = "idle"]
  /\ args' = [args EXCEPT ![t] = None]
  /\ ret' = [ret EXCEPT ![t] = None]
  /\ log' = [log EXCEPT ![t] = <<>>]
  /\ UNCHANGED <<errnoMem, files, offMem>>

\* Outside the shim, another library call of thread t leaves e in its errno.
OtherErrno(t, e) ==
  /\ pc[t] = "idle"
  /\ errnoMem' = [errnoMem EXCEPT ![ErrnoLoc(t)] = e]
  /\ UNCHANGED <<pc, args, ret, files, offMem, log>>

\* Outside the shim, thread t appends a byte to the file behind fd; the file
\* position moves to the end.
FileWrite(t, fd) ==
  /\ pc[t] = "idle"
  /\ Len(files[fd].data) < MaxFileLen
  /\ files' = [files EXCEPT ![fd] =
                 [data |-> Append(files[fd].data, 1),
                  pos |-> Len(files[fd].data) + 1]]
  /\ UNCHANGED <<pc, args, ret, errnoMem, offMem, log>>

\* Outside the shim, thread t assigns its off_t cell.
OffsetAssign(t, v) ==
  /\ pc[t] = "idle"
  /\ offMem # v
  /\ offMem' = v
  /\ UNCHANGED <<pc, args, ret, errnoMem, files, log>>

\* --------------------------------------- concurrent callers: Spec
CallAny == \E t \in Threads : \E a \in ArgSamples : Call(t, a) /\ UNCHANGED hist
StoreAny == \E t \in Threads : Store(t) /\ UNCHANGED hist
ReturnAny == \E t \in Threads : Return(t) /\ UNCHANGED hist
ResumeAny == \E t \in Threads : Resume(t) /\ UNCHANGED hist
OtherErrnoAny ==
  \E t \in Threads : \E e \in ErrnoValues : OtherErrno(t, e) /\ UNCHANGED hist
FileWriteAny ==
  \E t \in Threads : \E fd \in OpenFds : FileWrite(t, fd) /\ UNCHANGED hist
OffsetAssignAny ==
  \E t \in Threads : \E v \in OffValues : OffsetAssign(t, v) /\ UNCHANGED hist

Next ==
  \/ CallAny
  \/ StoreAny
  \/ ReturnAny
  \/ ResumeAny
  \/ OtherErrnoAny
  \/ FileWriteAny
  \/ OffsetAssignAny

Spec == Init /\ [][Next]_vars

\* A thread inside the body is scheduled: its next line is eventually run.
\* The callers and the rest of the process are under no obligation.
Body(t) == (Store(t) \/ Return(t)) /\ UNCHANGED hist
FairSpec == Init /\ [][Next]_vars /\ \A t \in Threads : WF_vars(Body(t))

\* ------------------- one caller, every argument tuple: SeqSpec
\* Thread 1 calls the shim again and again; pre and prev record what its
\* errno held at entry and what its preceding call left.
SeqCall ==
  \E a \in AllArgs :
    /\ Call(1, a)
    /\ pre' = Some(Errno(1))
    /\ UNCHANGED prev
SeqStore == Store(1) /\ UNCHANGED hist
SeqReturn == Return(1) /\ UNCHANGED hist
SeqResume ==
  /\ Resume(1)
  /\ prev' = Some([ret |-> Val(ret[1]), err |-> Errno(1)])
  /\ pre' = None
SeqOtherErrno ==
  \E e \in ErrnoValues :
    /\ OtherErrno(1, e)
    /\ prev' = None
    /\ UNCHANGED pre
SeqFileWrite == \E fd \in OpenFds : FileWrite(1, fd) /\ UNCHANGED hist
SeqOffsetAssign == \E v \in OffValues : OffsetAssign(1, v) /\ UNCHANGED hist

SeqNext ==
  \/ SeqCall
  \/ SeqStore
  \/ SeqReturn
  \/ SeqResume
  \/ SeqOtherErrno
  \/ SeqFileWrite
  \/ SeqOffsetAssign

SeqSpec == Init /\ [][SeqNext]_vars

TypeOK ==
  /\ pc \in [Threads -> {"idle", "entered", "stored", "returned"}]
  /\ \A t \in Threads : args[t] = None \/ Val(args[t]) \in AllArgs
  /\ \A t \in Threads : (pc[t] = "idle") <=> (args[t] = None)
  /\ \A t \in Threads : (pc[t] = "returned") <=> (ret[t] # None)
  /\ errnoMem \in [Threads -> ErrnoValues]
  /\ offMem \in OffValues

\* ---------------------------------------------------------- the claims

InBody(t) == pc[t] \in {"entered", "stored"}
InCall(t) == pc[t] \in {"entered", "stored", "returned"}

\* Thread t takes a step of its call: it enters, runs line 13 or runs line 14.
CallStep(t) == pc[t] \in {"idle", "entered", "stored"} /\ pc'[t] # pc[t]

\* Two accesses conflict: same location, at least one of them a write.
Conflict(x, y) ==
  /\ x.kind = y.kind /\ x.cell = y.cell /\ x.ptr = y.ptr
  /\ "w" \in {x.op, y.op}

\* C1: whatever the arguments (descriptors valid or negative, offsets null,
\* live or dangling, any length, any flags), when the caller observes the
\* return the value is -1 and its errno is ENOSYS.
C1_ReturnsMinusOneENOSYS ==
  \A t \in Threads :
    pc[t] = "returned" => ret[t] = Some(-1) /\ Errno(t) = ENOSYS

C1_Witness ==
  /\ pc[1] = "returned"
  /\ Val(args[1]).fd_in = -1 /\ Val(args[1]).fd_out = 4
  /\ Val(args[1]).off_in = NullPtr /\ Val(args[1]).off_out = DanglingPtr
  /\ Val(args[1]).len = 0 /\ Val(args[1]).flags = 1

\* C2: no step of a call changes the contents or position of any file or the
\* caller's off_t cell, and the only memory the call accesses is errno: the
\* offset pointers are neither read nor written.
C2_FrameStep ==
  \A t \in Threads :
    CallStep(t) =>
      /\ files' = files
      /\ offMem' = offMem
      /\ \A i \in DOMAIN log'[t] : log'[t][i].kind = "errno"
C2_FilesAndOffsetsUntouched == [][C2_FrameStep]_vars

C2_Witness ==
  \E t \in Threads :
    /\ pc[t] = "returned"
    /\ Val(args[t]).fd_in = 3 /\ Val(args[t]).fd_out = 4
    /\ Val(args[t]).off_in = CellPtr /\ Val(args[t]).off_out = CellPtr
    /\ files[3].data # files[4].data
    /\ offMem = 4096

\* C3: the outcome does not depend on the arguments: any two calls whose
\* callers are both observing the result got the same return value and the
\* same errno, and it is never EBADF (9) or EINVAL (22).
C3_OutcomeIndependentOfArgs ==
  \A t, u \in Threads :
    (pc[t] = "returned" /\ pc[u] = "returned") =>
      /\ ret[t] = ret[u]
      /\ Errno(t) = Errno(u)
      /\ Errno(t) \notin {9, 22}

C3_Witness ==
  \E t, u \in Threads :
    /\ pc[t] = "returned" /\ pc[u] = "returned"
    /\ Val(args[t]).fd_in = 3 /\ Val(args[t]).fd_out = 4
    /\ Val(args[t]).len = 4096 /\ Val(args[t]).flags = 0
    /\ Val(args[u]).fd_in = -1 /\ Val(args[u]).fd_out = -1

\* C4: with the calls of several threads interleaved, no two calls make
\* conflicting memory accesses, no thread inside the body is ever kept from
\* running its next line, and a caller that observes its result while
\* another call is in flight finds -1 and ENOSYS in its own errno.
C4_ConcurrentCallsIndependent ==
  \A t \in Threads :
    /\ InBody(t) => ENABLED (Store(t) \/ Return(t))
    /\ \A u \in Threads \ {t} :
         /\ \A i \in DOMAIN log[t] : \A j \in DOMAIN log[u] :
              ~Conflict(log[t][i], log[u][j])
         /\ (pc[t] = "returned" /\ InCall(u)) =>
              ret[t] = Some(-1) /\ Errno(t) = ENOSYS

C4_Witness ==
  \E t, u \in Threads :
    /\ t # u
    /\ pc[t] = "returned" /\ pc[u] = "stored"
    /\ log[t] # <<>> /\ log[u] # <<>>
    /\ args[t] # args[u]

\* C6: a call that has entered the body always reaches its return, and when
\* it does it has made exactly one memory access, the write of errno.
C6_Done(t) ==
  /\ pc[t] = "returned"
  /\ Len(log[t]) = 1
  /\ log[t][1].op = "w" /\ log[t][1].kind = "errno"
C6_EveryCallReturns ==
  \A t \in Threads : (pc[t] = "entered") ~> C6_Done(t)

C6_Witness ==
  \E t, u \in Threads :
    /\ t # u
    /\ C6_Done(t)
    /\ InBody(u)

\* C7: a step of thread t's call leaves the errno of every other thread as
\* it was.
C7_Step ==
  \A t \in Threads :
    CallStep(t) =>
      \A u \in Threads \ {t} :
        errnoMem'[ErrnoLoc(u)] = errnoMem[ErrnoLoc(u)]
C7_OtherThreadsErrnoUnchanged == [][C7_Step]_vars

C7_Witness ==
  \E t, u \in Threads :
    /\ t # u
    /\ pc[t] = "returned" /\ Errno(t) = ENOSYS
    /\ pc[u] = "idle" /\ Errno(u) = 9

\* C8: whatever errno held when the call was entered (0, ENOSYS or another
\* code) it holds ENOSYS at the return, and a call that follows another
\* call returns the same value and leaves the same errno as the one before.
C8_UnconditionalAndIdempotent ==
  pc[1] = "returned" =>
    /\ pre # None /\ Val(pre) \in ErrnoValues
    /\ Errno(1) = ENOSYS
    /\ prev # None =>
         /\ ret[1] = Some(Val(prev).ret)
         /\ Errno(1) = Val(prev).err

C8_Witness ==
  /\ pc[1] = "returned"
  /\ prev # None
  /\ pre = Some(ENOSYS)
  /\ Val(args[1]).len = 4096
====
